---- MODULE Spec2Model ----
(***************************************************************************)
(* LinkedIn MCP server (src/Main.py): the tool dispatcher, the seven tool  *)
(* operations, the experience-level mapper, the date formatter and the     *)
(* job-market aggregation.                                                  *)
(*                                                                         *)
(* JSON / Python values are tagged records:                                *)
(*   [t |-> "str", s |-> ...]   [t |-> "int", i |-> ...]   [t |-> "null"] *)
(*   [t |-> "obj", o |-> <function from keys to values>]                   *)
(*   [t |-> "list", l |-> <sequence of values>]                            *)
(* A text built by f-strings is a sequence of pieces, one per `result +=`  *)
(* statement: [fmt |-> <the literal with {} holes>, a |-> <<hole texts>>]. *)
(***************************************************************************)
EXTENDS Integers, Sequences, FiniteSets, TLC

VARIABLES access_token, handlers, request, last, prev

vars == <<access_token, handlers, request, last, prev>>

(***************************************************************************)
(* Bounds of the model                                                     *)
(***************************************************************************)
\* longest job list enumerated exhaustively
MaxItems == 2
\* longest job list of the market analysis enumerated exhaustively
MaxAnalysisItems == 3
\* length of the long, generated job lists
LongLen == 101
\* number of distinct company keys in the long, generated job lists
ManyKeys == 12

(***************************************************************************)
(* Python values                                                           *)
(***************************************************************************)
Str(s) == [t |-> "str", s |-> s]

Int_(i) == [t |-> "int", i |-> i]

None == [t |-> "null"]

Obj(o) == [t |-> "obj", o |-> o]

List(l) == [t |-> "list", l |-> l]

\* the empty dict {}
EmptyDict == Obj(<<>>)

\* str(v), as an f-string hole renders it
PyStr(v) ==
  CASE v.t = "str" -> v.s
    [] v.t = "int" -> ToString(v.i)
    [] v.t = "null" -> "None"
    [] v.t = "list" -> "[...]"
    [] OTHER -> "{...}"

\* bool(v)
Truthy(v) ==
  CASE v.t = "str" -> v.s # ""
    [] v.t = "int" -> v.i # 0
    [] v.t = "null" -> FALSE
    [] v.t = "list" -> v.l # <<>>
    [] OTHER -> DOMAIN v.o # {}

\* an exception: its class and its message (a piece); cls = "" is "none raised"
NoExc == [cls |-> "", fmt |-> "", a |-> <<>>]

Raise(cls, fmt, a) == [cls |-> cls, fmt |-> fmt, a |-> a]

\* d.get(k, default); d a dict. Calling .get on anything else raises
\* AttributeError, which the callers test with IsDict first.
IsDict(d) == d.t = "obj"

DictGet(d, k, default) == IF k \in DOMAIN d.o THEN d.o[k] ELSE default

\* type(v).__name__
TypeName(v) ==
  CASE v.t = "null" -> "NoneType"
    [] v.t = "list" -> "list"
    [] v.t = "str" -> "str"
    [] v.t = "int" -> "int"
    [] OTHER -> "dict"

NoGetAttr(d) ==
  Raise("AttributeError", "'{}' object has no attribute 'get'", <<TypeName(d)>>)

Piece(fmt, a) == [fmt |-> fmt, a |-> a]

(***************************************************************************)
(* Parameter mapper and date formatter                                     *)
(***************************************************************************)
\* the experience levels the search_jobs input schema accepts
ExperienceEnum == {"entry", "associate", "mid-senior", "director", "executive"}

\* the dict literal of _map_experience_level
ExperienceMapping ==
  [entry |-> "1,2", associate |-> "3", director |-> "5", executive |-> "6"]
  @@ ("mid-senior" :> "4")

\* the mapping without its last entry
MapExperienceWithoutExecutive(level) ==
  IF level.t = "str" /\ level.s \in DOMAIN ExperienceMapping \ {"executive"}
    THEN ExperienceMapping[level.s]
    ELSE ""

\* mapping.get(level, ""); every value the model passes is hashable
_map_experience_level(level) ==
  IF level.t = "str" /\ level.s \in DOMAIN ExperienceMapping
    THEN ExperienceMapping[level.s]
    ELSE ""

SecondsPerDay == 86400

MsPerSecond == 1000

DefaultPostedWithinDays == 30

DefaultSearchLimit == 10

DefaultCompanyLimit == 20

AnalysisCount == 100

TopN == 10

\* cumulative days before each month of 1970
MonthStart == <<0, 31, 59, 90, 120, 151, 181, 212, 243, 273, 304, 334, 365>>

Pad2(n) == IF n < 10 THEN "0" \o ToString(n) ELSE ToString(n)

\* strftime("%Y-%m-%d") of the day `d` days after the epoch (UTC, year 1970)
DateOfDay(d) ==
  LET m == CHOOSE k \in 1..12 : MonthStart[k] <= d /\ d < MonthStart[k + 1]
  IN "1970-" \o Pad2(m) \o "-" \o Pad2(d - MonthStart[m] + 1)

\* _format_date; returns [exc, s]
_format_date(timestamp) ==
  IF ~Truthy(timestamp)
    THEN [exc |-> NoExc, s |-> "Unknown"]
    ELSE IF timestamp.t # "int"
      THEN [exc |-> Raise("TypeError",
                          "unsupported operand type(s) for /: '{}' and 'int'",
                          <<TypeName(timestamp)>>),
            s |-> ""]
      ELSE [exc |-> NoExc,
            s |-> DateOfDay((timestamp.i \div MsPerSecond) \div SecondsPerDay)]

(***************************************************************************)
(* Outbound fetch                                                          *)
(***************************************************************************)
LINKEDIN_API_BASE == "https://api.linkedin.com/v2"

\* what httpx raises for each outcome of the GET that is not a 2xx JSON body
FetchError(outcome, url) ==
  CASE outcome.kind = "status" ->
         Raise("HTTPStatusError", "Client error '401 Unauthorized' for url '{}'", <<url>>)
    [] outcome.kind = "network" ->
         Raise("ConnectError", "All connection attempts failed", <<>>)
    [] outcome.kind = "timeout" ->
         Raise("ReadTimeout", "The read operation timed out", <<>>)
    [] outcome.kind = "bad_json" ->
         Raise("JSONDecodeError", "Expecting value: line 1 column 1 (char 0)", <<>>)
    [] OTHER -> NoExc

\* _make_request; returns [exc, data, fetch]
_make_request(token, endpoint, params, outcome) ==
  [exc |-> FetchError(outcome, LINKEDIN_API_BASE \o endpoint),
   data |-> IF outcome.kind = "ok" THEN outcome.data ELSE None,
   fetch |-> [url |-> LINKEDIN_API_BASE \o endpoint,
              headers |-> [Authorization |-> "Bearer " \o PyStr(token),
                           RestliVersion |-> "2.0.0"],
              params |-> params]]

\* the value an operation leaves: an exception or a text, and the fetches made
Raised(exc, fetches) == [exc |-> exc, result |-> <<>>, fetches |-> fetches]

Returned(result, fetches) == [exc |-> NoExc, result |-> result, fetches |-> fetches]

\* `data = await self._make_request(...)` followed by the first `data.get`:
\* the fetch's exception, or AttributeError when the body is no JSON object,
\* or `rest`, what the operation does with the object
WithData(req, rest) ==
  IF req.exc.cls # "" THEN Raised(req.exc, <<req.fetch>>)
  ELSE IF ~IsDict(req.data) THEN Raised(NoGetAttr(req.data), <<req.fetch>>)
  ELSE rest

\* data.get("elements", []) as the sequence the loop iterates; None is falsy
Elements(data) ==
  LET e == DictGet(data, "elements", List(<<>>))
  IN IF e.t = "list" THEN e.l ELSE <<>>

RECURSIVE Entries(_, _, _)
\* the loop `for i, x in enumerate(xs, 1)`, iterations[i] being what its body
\* does for the i-th item: the lines of iterations lo..hi in order, up to the
\* first one that raises
Entries(iterations, lo, hi) ==
  IF lo > hi THEN [exc |-> NoExc, lines |-> <<>>]
  ELSE IF lo = hi THEN iterations[lo]
  ELSE LET mid == (lo + hi) \div 2
           left == Entries(iterations, lo, mid)
       IN IF left.exc.cls # "" THEN left
          ELSE LET right == Entries(iterations, mid + 1, hi)
               IN [exc |-> right.exc, lines |-> left.lines \o right.lines]

\* the text of a listing: its header and the lines of the loop, or the
\* exception the loop raised
Listing(header, entries, fetches) ==
  IF entries.exc.cls # "" THEN Raised(entries.exc, fetches)
  ELSE Returned(header \o entries.lines, fetches)

(***************************************************************************)
(* search_jobs                                                             *)
(***************************************************************************)
\* timedelta(days=v) accepts numbers only
TimedeltaError(v) ==
  Raise("TypeError", "unsupported type for timedelta days component: {}",
        <<TypeName(v)>>)

\* the six lines of one job
SearchJobsLines(i, title, company, location_str, job_id, posted) ==
  IF posted.exc.cls # "" THEN [exc |-> posted.exc, lines |-> <<>>]
  ELSE [exc |-> NoExc,
        lines |-> << Piece("{}. {}\n", <<ToString(i), PyStr(title)>>),
                     Piece("   Company: {}\n", <<PyStr(company)>>),
                     Piece("   Location: {}\n", <<PyStr(location_str)>>),
                     Piece("   Job ID: {}\n", <<PyStr(job_id)>>),
                     Piece("   Posted: {}\n", <<posted.s>>),
                     Piece("   URL: https://www.linkedin.com/jobs/view/{}\n\n",
                           <<PyStr(job_id)>>) >>]

\* job.get("companyDetails", {}).get("company", default); returns [exc, v]
CompanyOf(job, default) ==
  IF ~IsDict(DictGet(job, "companyDetails", EmptyDict))
    THEN [exc |-> NoGetAttr(DictGet(job, "companyDetails", EmptyDict)), v |-> None]
    ELSE [exc |-> NoExc,
          v |-> DictGet(DictGet(job, "companyDetails", EmptyDict), "company", default)]

SearchJobsFields(job, i, company) ==
  IF company.exc.cls # "" THEN [exc |-> company.exc, lines |-> <<>>]
  ELSE SearchJobsLines(i,
                       DictGet(job, "title", Str("Unknown Title")),
                       company.v,
                       DictGet(job, "formattedLocation", Str("Location not specified")),
                       DictGet(job, "jobPostingId", Str("")),
                       _format_date(DictGet(job, "listedAt", Str(""))))

\* the loop body that skips a job without title, as a scraper would
SearchJobsEntrySkipsUntitled(job, i) ==
  IF ~IsDict(job) THEN [exc |-> NoGetAttr(job), lines |-> <<>>]
  ELSE IF "title" \notin DOMAIN job.o THEN [exc |-> NoExc, lines |-> <<>>]
  ELSE SearchJobsFields(job, i, CompanyOf(job, Str("Unknown Company")))

\* one iteration of the rendering loop of _search_jobs; returns [exc, lines]
SearchJobsEntry(job, i) ==
  IF ~IsDict(job) THEN [exc |-> NoGetAttr(job), lines |-> <<>>]
  ELSE SearchJobsFields(job, i, CompanyOf(job, Str("Unknown Company")))

\* the parameters with the limit cut down to 100
SearchJobsParamsClamped(keywords, location, experience_level, posted_within_days, limit) ==
  [keywords |-> keywords,
   location |-> location,
   f_E |-> _map_experience_level(experience_level),
   f_TPR |-> "r" \o ToString(posted_within_days.i * SecondsPerDay),
   count |-> IF limit.t = "int" /\ limit.i > 100 THEN Int_(100) ELSE limit]

\* the query parameters _search_jobs builds
SearchJobsParams(keywords, location, experience_level, posted_within_days, limit) ==
  [keywords |-> keywords,
   location |-> location,
   f_E |-> _map_experience_level(experience_level),
   f_TPR |-> "r" \o ToString(posted_within_days.i * SecondsPerDay),
   count |-> limit]

SearchJobsHeader(n, keywords, location, experience_level, posted_within_days) ==
  << Piece("Found {} jobs for '{}'", <<ToString(n), PyStr(keywords)>>) >>
  \o (IF Truthy(location) THEN << Piece(" in {}", <<PyStr(location)>>) >> ELSE <<>>)
  \o (IF Truthy(experience_level)
        THEN << Piece(" ({} level)", <<PyStr(experience_level)>>) >> ELSE <<>>)
  \o << Piece(" posted within last {} days:\n\n", <<PyStr(posted_within_days)>>) >>

\* the formatting without the `if not jobs` return
SearchJobsFormatNoEmptyCase(jobs, fetches, keywords, location, experience_level, posted_within_days) ==
  Listing(SearchJobsHeader(Len(jobs), keywords, location, experience_level,
                           posted_within_days),
          Entries([i \in 1..Len(jobs) |-> SearchJobsEntry(jobs[i], i)], 1, Len(jobs)),
          fetches)

\* the part of _search_jobs that formats the results
SearchJobsFormat(jobs, fetches, keywords, location, experience_level, posted_within_days) ==
  IF jobs = <<>>
    THEN Returned(<< Piece("No jobs found for '{}' in {}",
                           <<PyStr(keywords),
                             IF Truthy(location) THEN PyStr(location)
                                                 ELSE "any location">>) >>,
                  fetches)
    ELSE Listing(SearchJobsHeader(Len(jobs), keywords, location, experience_level,
                                  posted_within_days),
                 Entries([i \in 1..Len(jobs) |-> SearchJobsEntry(jobs[i], i)],
                         1, Len(jobs)),
                 fetches)

\* _search_jobs from the response of the request on
SearchJobsOnResponse(req, keywords, location, experience_level, posted_within_days) ==
  WithData(req, SearchJobsFormat(Elements(req.data), <<req.fetch>>, keywords, location,
                                 experience_level, posted_within_days))

\* _search_jobs once the arguments are read
SearchJobsQuery(token, keywords, location, experience_level, posted_within_days, limit, outcome) ==
  IF posted_within_days.t # "int"
    THEN Raised(TimedeltaError(posted_within_days), <<>>)
    ELSE SearchJobsOnResponse(
           _make_request(token, "/jobSearch",
                         SearchJobsParams(keywords, location, experience_level,
                                          posted_within_days, limit),
                         outcome),
           keywords, location, experience_level, posted_within_days)

\* _search_jobs with a default of 7 days
SearchJobsDefaultWeek(token, args, outcome) ==
  IF ~IsDict(args) THEN Raised(NoGetAttr(args), <<>>)
  ELSE SearchJobsQuery(token,
                       DictGet(args, "keywords", None),
                       DictGet(args, "location", Str("")),
                       DictGet(args, "experience_level", Str("")),
                       DictGet(args, "posted_within_days", Int_(7)),
                       DictGet(args, "limit", Int_(DefaultSearchLimit)),
                       outcome)

_search_jobs(token, args, outcome) ==
  IF ~IsDict(args) THEN Raised(NoGetAttr(args), <<>>)
  ELSE SearchJobsQuery(token,
                       DictGet(args, "keywords", None),
                       DictGet(args, "location", Str("")),
                       DictGet(args, "experience_level", Str("")),
                       DictGet(args, "posted_within_days", Int_(DefaultPostedWithinDays)),
                       DictGet(args, "limit", Int_(DefaultSearchLimit)),
                       outcome)

(***************************************************************************)
(* get_job_details, search_companies, get_company_details, search_profiles *)
(* and get_company_jobs                                                    *)
(***************************************************************************)
RECURSIVE JoinFrom(_, _)
\* ", ".join(l) from index i on; every element must be a str
JoinFrom(l, i) ==
  IF i > Len(l) THEN [exc |-> NoExc, s |-> ""]
  ELSE IF l[i].t # "str"
    THEN [exc |-> Raise("TypeError", "sequence item {}: expected str instance, {} found",
                        <<ToString(i - 1), TypeName(l[i])>>),
          s |-> ""]
    ELSE [exc |-> JoinFrom(l, i + 1).exc,
          s |-> IF i = Len(l) THEN l[i].s ELSE l[i].s \o ", " \o JoinFrom(l, i + 1).s]

Join(v) ==
  IF v.t # "list"
    THEN [exc |-> Raise("TypeError", "can only join an iterable", <<>>), s |-> ""]
    ELSE JoinFrom(v.l, 1)

\* d.get(k, {}).get(inner, default); returns [exc, v]
NestedGet(d, k, inner, default) ==
  IF ~IsDict(DictGet(d, k, EmptyDict))
    THEN [exc |-> NoGetAttr(DictGet(d, k, EmptyDict)), v |-> None]
    ELSE [exc |-> NoExc, v |-> DictGet(DictGet(d, k, EmptyDict), inner, default)]

JobDetailsText(data, fetches, company, description, industries) ==
  IF company.exc.cls # "" THEN Raised(company.exc, fetches)
  ELSE IF description.exc.cls # "" THEN Raised(description.exc, fetches)
  ELSE IF industries.exc.cls # "" THEN Raised(industries.exc, fetches)
  ELSE Returned(
         << Piece("Job Details:\n\n", <<>>),
            Piece("Title: {}\n", <<PyStr(DictGet(data, "title", Str("N/A")))>>),
            Piece("Company: {}\n", <<PyStr(company.v)>>),
            Piece("Location: {}\n",
                  <<PyStr(DictGet(data, "formattedLocation", Str("N/A")))>>),
            Piece("Employment Type: {}\n",
                  <<PyStr(DictGet(data, "employmentType", Str("N/A")))>>),
            Piece("Seniority Level: {}\n",
                  <<PyStr(DictGet(data, "seniorityLevel", Str("N/A")))>>),
            Piece("Industries: {}\n\n", <<industries.s>>),
            Piece("Description:\n{}\n", <<PyStr(description.v)>>) >>,
         fetches)

\* _get_job_details from the response of the request on
JobDetailsOnResponse(req) ==
  WithData(req,
           JobDetailsText(req.data, <<req.fetch>>,
                          NestedGet(req.data, "companyDetails", "company", Str("N/A")),
                          NestedGet(req.data, "description", "text", Str("No description")),
                          Join(DictGet(req.data, "industries", List(<<>>)))))

_get_job_details(token, args, outcome) ==
  IF ~IsDict(args) THEN Raised(NoGetAttr(args), <<>>)
  ELSE JobDetailsOnResponse(
         _make_request(token, "/jobs/" \o PyStr(DictGet(args, "job_id", None)),
                       None, outcome))

SearchCompaniesLines(company, i, tagline) ==
  IF tagline.exc.cls # "" THEN [exc |-> tagline.exc, lines |-> <<>>]
  ELSE [exc |-> NoExc,
        lines |-> << Piece("{}. {}\n",
                           <<ToString(i),
                             PyStr(DictGet(company, "localizedName", Str("Unknown")))>>),
                     Piece("   Company ID: {}\n",
                           <<PyStr(DictGet(company, "id", Str("")))>>),
                     Piece("   Tagline: {}\n\n", <<PyStr(tagline.v)>>) >>]

\* one iteration of the loop of _search_companies
SearchCompaniesEntry(company, i) ==
  IF ~IsDict(company) THEN [exc |-> NoGetAttr(company), lines |-> <<>>]
  ELSE SearchCompaniesLines(company, i, NestedGet(company, "tagline", "text", Str("")))

\* one iteration of the loop of _search_profiles
SearchProfilesEntry(profile, i) ==
  IF ~IsDict(profile) THEN [exc |-> NoGetAttr(profile), lines |-> <<>>]
  ELSE [exc |-> NoExc,
        lines |-> << Piece("{}. {} {}\n",
                           <<ToString(i),
                             PyStr(DictGet(profile, "firstName", Str(""))),
                             PyStr(DictGet(profile, "lastName", Str("")))>>),
                     Piece("   Headline: {}\n",
                           <<PyStr(DictGet(profile, "headline", Str("")))>>),
                     Piece("   Location: {}\n\n",
                           <<PyStr(DictGet(profile, "locationName", Str("")))>>) >>]

\* one iteration of the loop of _get_company_jobs
CompanyJobsEntry(job, i) ==
  IF ~IsDict(job) THEN [exc |-> NoGetAttr(job), lines |-> <<>>]
  ELSE [exc |-> NoExc,
        lines |-> << Piece("{}. {}\n",
                           <<ToString(i),
                             PyStr(DictGet(job, "title", Str("Unknown Title")))>>),
                     Piece("   Location: {}\n",
                           <<PyStr(DictGet(job, "formattedLocation", Str("N/A")))>>),
                     Piece("   Job ID: {}\n",
                           <<PyStr(DictGet(job, "jobPostingId", Str("")))>>),
                     Piece("   URL: https://www.linkedin.com/jobs/view/{}\n\n",
                           <<PyStr(DictGet(job, "jobPostingId", Str("")))>>) >>]

\* `if not xs: return <empty>` and the listing otherwise
ListingOrEmpty(xs, fetches, empty, found, iterations) ==
  IF xs = <<>> THEN Returned(<<empty>>, fetches)
  ELSE Listing(<< Piece(found, <<ToString(Len(xs))>>) >>,
               Entries(iterations, 1, Len(xs)), fetches)

\* _search_companies from the items of the response on
SearchCompaniesFormat(companies, fetches, company_name) ==
  ListingOrEmpty(companies, fetches,
                 Piece("No companies found matching '{}'", <<PyStr(company_name)>>),
                 "Found {} companies:\n\n",
                 [i \in 1..Len(companies) |-> SearchCompaniesEntry(companies[i], i)])

\* _search_profiles from the items of the response on
SearchProfilesFormat(profiles, fetches, keywords) ==
  ListingOrEmpty(profiles, fetches,
                 Piece("No profiles found matching '{}'", <<PyStr(keywords)>>),
                 "Found {} profiles:\n\n",
                 [i \in 1..Len(profiles) |-> SearchProfilesEntry(profiles[i], i)])

\* _get_company_jobs from the items of the response on
CompanyJobsFormat(jobs, fetches) ==
  ListingOrEmpty(jobs, fetches,
                 Piece("No active job postings found for this company", <<>>),
                 "Found {} active job postings:\n\n",
                 [i \in 1..Len(jobs) |-> CompanyJobsEntry(jobs[i], i)])

SearchCompaniesOnResponse(req, company_name) ==
  WithData(req, SearchCompaniesFormat(Elements(req.data), <<req.fetch>>, company_name))

SearchProfilesOnResponse(req, keywords) ==
  WithData(req, SearchProfilesFormat(Elements(req.data), <<req.fetch>>, keywords))

CompanyJobsOnResponse(req) ==
  WithData(req, CompanyJobsFormat(Elements(req.data), <<req.fetch>>))

_search_companies(token, args, outcome) ==
  IF ~IsDict(args) THEN Raised(NoGetAttr(args), <<>>)
  ELSE SearchCompaniesOnResponse(
         _make_request(token, "/companySearch",
                       [keywords |-> DictGet(args, "company_name", None),
                        industry |-> DictGet(args, "industry", Str("")),
                        location |-> DictGet(args, "location", Str(""))],
                       outcome),
         DictGet(args, "company_name", None))

\* data.get("industries", ["N/A"])[0] if data.get("industries") else "N/A"
FirstIndustry(industries) ==
  IF ~Truthy(industries) THEN [exc |-> NoExc, v |-> Str("N/A")]
  ELSE IF industries.t = "list" THEN [exc |-> NoExc, v |-> industries.l[1]]
  ELSE [exc |-> Raise("TypeError", "object is not subscriptable", <<>>), v |-> None]

CompanyDetailsText(data, fetches, description, industry, founded) ==
  IF description.exc.cls # "" THEN Raised(description.exc, fetches)
  ELSE IF industry.exc.cls # "" THEN Raised(industry.exc, fetches)
  ELSE IF founded.exc.cls # "" THEN Raised(founded.exc, fetches)
  ELSE Returned(
         << Piece("Company Details:\n\n", <<>>),
            Piece("Name: {}\n", <<PyStr(DictGet(data, "localizedName", Str("N/A")))>>),
            Piece("Industry: {}\n", <<PyStr(industry.v)>>),
            Piece("Company Size: {} employees\n",
                  <<PyStr(DictGet(data, "staffCount", Str("N/A")))>>),
            Piece("Founded: {}\n", <<PyStr(founded.v)>>),
            Piece("Website: {}\n\n", <<PyStr(DictGet(data, "websiteUrl", Str("N/A")))>>),
            Piece("Description:\n{}\n", <<PyStr(description.v)>>) >>,
         fetches)

\* _get_company_details from the response of the request on
CompanyDetailsOnResponse(req) ==
  WithData(req,
           CompanyDetailsText(req.data, <<req.fetch>>,
                              NestedGet(req.data, "description", "text",
                                        Str("No description")),
                              FirstIndustry(DictGet(req.data, "industries", None)),
                              NestedGet(req.data, "foundedOn", "year", Str("N/A"))))

_get_company_details(token, args, outcome) ==
  IF ~IsDict(args) THEN Raised(NoGetAttr(args), <<>>)
  ELSE CompanyDetailsOnResponse(
         _make_request(token,
                       "/organizations/" \o PyStr(DictGet(args, "company_id", None)),
                       None, outcome))

_search_profiles(token, args, outcome) ==
  IF ~IsDict(args) THEN Raised(NoGetAttr(args), <<>>)
  ELSE SearchProfilesOnResponse(
         _make_request(token, "/peopleSearch",
                       [keywords |-> DictGet(args, "keywords", None),
                        currentCompany |-> DictGet(args, "current_company", Str("")),
                        location |-> DictGet(args, "location", Str(""))],
                       outcome),
         DictGet(args, "keywords", None))

_get_company_jobs(token, args, outcome) ==
  IF ~IsDict(args) THEN Raised(NoGetAttr(args), <<>>)
  ELSE CompanyJobsOnResponse(
         _make_request(token, "/jobSearch",
                       [companyId |-> DictGet(args, "company_id", None),
                        count |-> DictGet(args, "limit", Int_(DefaultCompanyLimit))],
                       outcome))

(***************************************************************************)
(* analyze_job_market                                                      *)
(* A Python dict is a sequence of [k, n] in insertion order.               *)
(***************************************************************************)
HasKey(d, key) == \E j \in 1..Len(d) : d[j].k = key

\* d[key] = d.get(key, 0) + 1
Increment(d, key) ==
  IF HasKey(d, key)
    THEN [j \in 1..Len(d) |-> IF d[j].k = key THEN [k |-> key, n |-> d[j].n + 1]
                                                ELSE d[j]]
    ELSE Append(d, [k |-> key, n |-> 1])

NoCounts == [exc |-> NoExc, experience_levels |-> <<>>, companies |-> <<>>,
             locations |-> <<>>]

\* the loop body that counts no company for a job that has none
AggregateFieldsSkipsNoCompany(c, job, company) ==
  IF company.exc.cls # "" THEN [c EXCEPT !.exc = company.exc]
  ELSE [exc |-> NoExc,
        experience_levels |->
          Increment(c.experience_levels, DictGet(job, "seniorityLevel", Str("Unknown"))),
        companies |-> IF company.v = Str("Unknown") THEN c.companies
                      ELSE Increment(c.companies, company.v),
        locations |->
          Increment(c.locations, DictGet(job, "formattedLocation", Str("Unknown")))]

AggregateFields(c, job, company) ==
  IF company.exc.cls # "" THEN [c EXCEPT !.exc = company.exc]
  ELSE [exc |-> NoExc,
        experience_levels |->
          Increment(c.experience_levels, DictGet(job, "seniorityLevel", Str("Unknown"))),
        companies |-> Increment(c.companies, company.v),
        locations |->
          Increment(c.locations, DictGet(job, "formattedLocation", Str("Unknown")))]

\* the body of the aggregation loop for one job
AggregateJob(c, job) ==
  IF ~IsDict(job) THEN [c EXCEPT !.exc = NoGetAttr(job)]
  ELSE AggregateFields(c, job, CompanyOf(job, Str("Unknown")))

RECURSIVE AggregateRange(_, _, _, _)
\* the loop body applied to jobs[lo], ..., jobs[hi] in this order, from c on
AggregateRange(c, jobs, lo, hi) ==
  IF lo > hi \/ c.exc.cls # "" THEN c
  ELSE IF lo = hi THEN AggregateJob(c, jobs[lo])
  ELSE AggregateRange(AggregateRange(c, jobs, lo, (lo + hi) \div 2),
                      jobs, (lo + hi) \div 2 + 1, hi)

\* the three mappings after the loop `for job in jobs` has processed n jobs
AggregateLoop(jobs, n) == AggregateRange(NoCounts, jobs, 1, n)

\* x placed into the descending list s behind every entry that is not smaller
InsertAt(s, x, p) == SubSeq(s, 1, p) \o <<x>> \o SubSeq(s, p + 1, Len(s))

\* the insertion of an unstable sort: x goes before the entries that are equal
InsertDescBeforeTies(s, x) ==
  InsertAt(s, x, Cardinality({j \in 1..Len(s) : s[j].n > x.n}))

InsertDesc(s, x) == InsertAt(s, x, Cardinality({j \in 1..Len(s) : s[j].n >= x.n}))

RECURSIVE SortedByCountDesc(_, _)
\* sorted(d.items(), key=lambda x: x[1], reverse=True): stable, descending;
\* the first n items of d, sorted
SortedByCountDesc(d, n) ==
  IF n = 0 THEN <<>> ELSE InsertDesc(SortedByCountDesc(d, n - 1), d[n])

\* s[:k]
FirstK(s, k) == SubSeq(s, 1, IF Len(s) < k THEN Len(s) ELSE k)

\* the entries each ranked section of the report iterates over
RankedLevels(c) == SortedByCountDesc(c.experience_levels, Len(c.experience_levels))

\* the company ranking without the slice `[:10]`
RankedCompaniesUncut(c) == SortedByCountDesc(c.companies, Len(c.companies))

RankedCompanies(c) == FirstK(SortedByCountDesc(c.companies, Len(c.companies)), TopN)

RankedLocations(c) == FirstK(SortedByCountDesc(c.locations, Len(c.locations)), TopN)

\* tenths q of num/total, rounded half to even
RoundTenths(q, r2, total) ==
  IF r2 > total \/ (r2 = total /\ q % 2 = 1) THEN q + 1 ELSE q

OneDecimal(tenths) == ToString(tenths \div 10) \o "." \o ToString(tenths % 10)

\* f"{count/total*100:.1f}"
PercentOneDecimal(count, total) ==
  OneDecimal(RoundTenths((count * 1000) \div total, 2 * ((count * 1000) % total), total))

LevelLines(ranked, total) ==
  [j \in 1..Len(ranked) |->
     Piece("  - {}: {} ({}%)\n",
           <<PyStr(ranked[j].k), ToString(ranked[j].n),
             PercentOneDecimal(ranked[j].n, total)>>)]

OpeningLines(ranked) ==
  [j \in 1..Len(ranked) |->
     Piece("  - {}: {} openings\n", <<PyStr(ranked[j].k), ToString(ranked[j].n)>>)]

\* the report, from the three mappings
AnalysisReport(c, total_jobs, role, location, fetches) ==
  IF c.exc.cls # "" THEN Raised(c.exc, fetches)
  ELSE Returned(
         << Piece("Job Market Analysis for '{}'", <<PyStr(role)>>) >>
         \o (IF Truthy(location) THEN << Piece(" in {}", <<PyStr(location)>>) >>
                                 ELSE <<>>)
         \o << Piece(":\n\n", <<>>),
               Piece("Total Job Postings: {}\n\n", <<ToString(total_jobs)>>),
               Piece("Experience Level Distribution:\n", <<>>) >>
         \o LevelLines(RankedLevels(c), total_jobs)
         \o << Piece("\nTop Hiring Companies:\n", <<>>) >>
         \o OpeningLines(RankedCompanies(c))
         \o << Piece("\nTop Locations:\n", <<>>) >>
         \o OpeningLines(RankedLocations(c)),
         fetches)

AnalysisOf(jobs, fetches, role, location) ==
  IF jobs = <<>>
    THEN Returned(<< Piece("No data available for '{}' analysis", <<PyStr(role)>>) >>,
                  fetches)
    ELSE AnalysisReport(AggregateLoop(jobs, Len(jobs)), Len(jobs), role, location, fetches)

\* _analyze_job_market from the response of the request on
AnalysisOnResponse(req, role, location) ==
  WithData(req, AnalysisOf(Elements(req.data), <<req.fetch>>, role, location))

_analyze_job_market(token, args, outcome) ==
  IF ~IsDict(args) THEN Raised(NoGetAttr(args), <<>>)
  ELSE AnalysisOnResponse(
         _make_request(token, "/jobSearch",
                       [keywords |-> DictGet(args, "role", None),
                        location |-> DictGet(args, "location", Str("")),
                        count |-> Int_(AnalysisCount)],
                       outcome),
         DictGet(args, "role", None), DictGet(args, "location", Str("")))

(***************************************************************************)
(* Tool dispatcher                                                         *)
(***************************************************************************)
\* the classes `except Exception` does not catch
BaseExceptionOnly == {"CancelledError", "KeyboardInterrupt", "SystemExit", "GeneratorExit"}

CaughtByExceptException(exc) == exc.cls \notin BaseExceptionOnly

TextContent(text) == [type |-> "text", text |-> text]

\* the tool names the if/elif chain routes
RoutedTools ==
  {"search_jobs", "get_job_details", "search_companies", "get_company_details",
   "search_profiles", "get_company_jobs", "analyze_job_market"}

\* the chain with a final `else` that searches jobs in the place of the raise
DispatchDefaultsToSearch(token, name, arguments, outcome) ==
  CASE name = "get_job_details" -> _get_job_details(token, arguments, outcome)
    [] name = "search_companies" -> _search_companies(token, arguments, outcome)
    [] name = "get_company_details" -> _get_company_details(token, arguments, outcome)
    [] name = "search_profiles" -> _search_profiles(token, arguments, outcome)
    [] name = "get_company_jobs" -> _get_company_jobs(token, arguments, outcome)
    [] name = "analyze_job_market" -> _analyze_job_market(token, arguments, outcome)
    [] OTHER -> _search_jobs(token, arguments, outcome)

\* the operation the if/elif chain runs for `name`
Dispatch(token, name, arguments, outcome) ==
  CASE name = "search_jobs" -> _search_jobs(token, arguments, outcome)
    [] name = "get_job_details" -> _get_job_details(token, arguments, outcome)
    [] name = "search_companies" -> _search_companies(token, arguments, outcome)
    [] name = "get_company_details" -> _get_company_details(token, arguments, outcome)
    [] name = "search_profiles" -> _search_profiles(token, arguments, outcome)
    [] name = "get_company_jobs" -> _get_company_jobs(token, arguments, outcome)
    [] name = "analyze_job_market" -> _analyze_job_market(token, arguments, outcome)
    [] OTHER -> Raised(Raise("ValueError", "Unknown tool: {}", <<name>>), <<>>)

\* the handler with `except ValueError` in the place of `except Exception`
TryExceptValueErrorOnly(op) ==
  IF op.exc.cls = ""
    THEN [returned |-> << TextContent(op.result) >>, propagated |-> NoExc,
          fetches |-> op.fetches]
  ELSE IF op.exc.cls = "ValueError"
    THEN [returned |-> << TextContent(<< Piece("Error: " \o op.exc.fmt, op.exc.a) >>) >>,
          propagated |-> NoExc, fetches |-> op.fetches]
  ELSE [returned |-> <<>>, propagated |-> op.exc, fetches |-> op.fetches]

\* the try/except around the dispatch: what the call returns, which exception
\* leaves it and which fetches were made
TryExcept(op) ==
  IF op.exc.cls = ""
    THEN [returned |-> << TextContent(op.result) >>, propagated |-> NoExc,
          fetches |-> op.fetches]
  ELSE IF CaughtByExceptException(op.exc)
    THEN [returned |-> << TextContent(<< Piece("Error: " \o op.exc.fmt, op.exc.a) >>) >>,
          propagated |-> NoExc, fetches |-> op.fetches]
  ELSE [returned |-> <<>>, propagated |-> op.exc, fetches |-> op.fetches]

handle_call_tool(token, name, arguments, outcome) ==
  TryExcept(Dispatch(token, name, arguments, outcome))

(***************************************************************************)
(* Inputs: tool names, argument bags and outcomes of the fetch             *)
(***************************************************************************)
\* a key that may be absent: the empty dict, or the key with one of vals
Opt(k, vals) == {<<>>} \cup {k :> v : v \in vals}

Restrict(f, S) == [k \in S |-> f[k]]

UnknownTools == {"delete_everything", "Search_Jobs", ""}

ToolNames == RoutedTools \cup UnknownTools

\* experience_level arguments: the schema's enum, the empty string, others
LevelInputs == ExperienceEnum \cup {"", "internship", "Entry"}

\* posted_within_days arguments: days, and values that are not integers
RecencyInputs == {Int_(1), Int_(7), Int_(30), Str("past_week"), None}

LimitInputs == {Int_(2), Int_(150)}

SearchJobsBags ==
  {Obj(kw @@ loc @@ pwd @@ lim) :
     kw \in Opt("keywords", {Str("AI Engineer")}),
     loc \in Opt("location", {Str("Remote")}),
     pwd \in Opt("posted_within_days", RecencyInputs),
     lim \in Opt("limit", LimitInputs)}
  \cup
  {Obj(("keywords" :> Str("AI Engineer")) @@ loc @@ ("experience_level" :> Str(lv))) :
     loc \in Opt("location", {Str("Remote")}), lv \in LevelInputs}

CompanyJobsBags ==
  {Obj(id @@ lim) : id \in Opt("company_id", {Str("1441")}),
                    lim \in Opt("limit", LimitInputs)}

AnalyzeBags ==
  {Obj(role @@ loc) : role \in Opt("role", {Str("AI Engineer")}),
                      loc \in Opt("location", {Str("Remote"), Str("")})}

\* the argument bags a client sends with `name`; None is the absent bag
ArgBags(name) ==
  {None} \cup
  CASE name = "search_jobs" -> SearchJobsBags
    [] name = "get_job_details" -> {Obj(id) : id \in Opt("job_id", {Str("3801")})}
    [] name = "search_companies" ->
         {Obj(n @@ ind) : n \in Opt("company_name", {Str("Acme")}),
                          ind \in Opt("industry", {Str("Software")})}
    [] name = "get_company_details" ->
         {Obj(id) : id \in Opt("company_id", {Str("acme")})}
    [] name = "search_profiles" ->
         {Obj(k @@ c) : k \in Opt("keywords", {Str("Ada")}),
                        c \in Opt("current_company", {Str("Acme")})}
    [] name = "get_company_jobs" -> CompanyJobsBags
    [] name = "analyze_job_market" -> AnalyzeBags
    [] OTHER -> {EmptyDict, Obj("keywords" :> Str("AI Engineer"))}

\* two complete job objects of the /jobSearch payload
JobA ==
  [title |-> Str("ML Engineer"),
   companyDetails |-> Obj([company |-> Str("Acme")]),
   formattedLocation |-> Str("Remote"),
   jobPostingId |-> Str("3801"),
   listedAt |-> Int_(1728000000),
   seniorityLevel |-> Str("Entry level")]

JobB ==
  [title |-> Str("Data Scientist"),
   companyDetails |-> Obj([company |-> Str("Beta")]),
   formattedLocation |-> Str("Berlin"),
   jobPostingId |-> Int_(77),
   listedAt |-> Int_(86400000),
   seniorityLevel |-> Str("Director")]

\* JobA with any of its keys missing, and with a companyDetails without company
JobShapes ==
  LET parts == {Restrict(JobA, S) : S \in SUBSET DOMAIN JobA}
  IN {Obj(j) : j \in parts}
     \cup {Obj([j EXCEPT !["companyDetails"] = EmptyDict]) :
             j \in {q \in parts : "companyDetails" \in DOMAIN q}}

\* items that are not well-formed job objects
BrokenJobs ==
  {None,
   Obj([JobA EXCEPT !["companyDetails"] = None]),
   Obj([JobA EXCEPT !["listedAt"] = Str("2024-01-01")])}

\* the items the exhaustively enumerated lists are made of
CoreJobs == {Obj(JobA), Obj(JobB), EmptyDict}

RECURSIVE SeqsUpTo(_, _)
\* all sequences over S of length 0..n
SeqsUpTo(S, n) ==
  IF n = 0 THEN {<<>>}
  ELSE LET shorter == SeqsUpTo(S, n - 1)
       IN shorter \cup {Append(q, x) : q \in {r \in shorter : Len(r) = n - 1}, x \in S}

CompanyName(k) == Str("Company-" \o ToString(k))

\* a long list of jobs: job i belongs to company key(i), every third job has
\* no listedAt and every fifth no companyDetails
LongJob(i, k) ==
  LET base == [title |-> Str("Job-" \o ToString(i)),
               companyDetails |-> Obj([company |-> CompanyName(k)]),
               formattedLocation |-> Str("City-" \o ToString(k % 3)),
               jobPostingId |-> Int_(i),
               listedAt |-> Int_(86400000 * (i % 20)),
               seniorityLevel |-> Str("Level-" \o ToString(i % ManyKeys))]
      keys == DOMAIN base \ ((IF i % 3 = 0 THEN {"listedAt"} ELSE {})
                             \cup (IF i % 5 = 0 THEN {"companyDetails"} ELSE {}))
  IN Obj(Restrict(base, keys))

LongLists ==
  {[i \in 1..LongLen |-> LongJob(i, i % ManyKeys)],
   [i \in 1..LongLen |-> LongJob(i, (i * i) % ManyKeys)]}

SearchJobLists ==
  {<<x>> : x \in JobShapes \cup BrokenJobs} \cup SeqsUpTo(CoreJobs, MaxItems)
  \cup LongLists

\* the jobs the exhaustively enumerated lists of the market analysis are made of
AnalysisJobs ==
  {Obj(Restrict(j, S)) : j \in {JobA, JobB},
                         S \in {{"companyDetails", "formattedLocation", "seniorityLevel"},
                                {"companyDetails", "formattedLocation"},
                                {}}}

AnalysisJobLists ==
  SeqsUpTo(AnalysisJobs, MaxAnalysisItems) \cup LongLists
  \cup {<<x>> : x \in BrokenJobs}

ErrorOutcomes == {[kind |-> k] : k \in {"status", "network", "timeout", "bad_json"}}

Ok(data) == [kind |-> "ok", data |-> data]

\* 2xx bodies that are not an object with an "elements" list
MalformedBodies == {None, List(<<>>), EmptyDict, Obj([elements |-> None])}

ListOutcomes(lists) ==
  ErrorOutcomes \cup {Ok(d) : d \in MalformedBodies}
  \cup {Ok(Obj([elements |-> List(l)])) : l \in lists}

JobDetail ==
  [title |-> Str("ML Engineer"),
   companyDetails |-> Obj([company |-> Str("Acme")]),
   formattedLocation |-> Str("Remote"),
   description |-> Obj([text |-> Str("Build models")]),
   employmentType |-> Str("FULL_TIME"),
   seniorityLevel |-> Str("Entry level"),
   industries |-> List(<<Str("Software"), Str("AI")>>)]

CompanyDetail ==
  [localizedName |-> Str("Acme"),
   description |-> Obj([text |-> Str("We build")]),
   industries |-> List(<<Str("Software")>>),
   staffCount |-> Int_(250),
   foundedOn |-> Obj([year |-> Int_(1999)]),
   websiteUrl |-> Str("https://acme.example")]

CompanyItems ==
  {Obj([localizedName |-> Str("Acme"), id |-> Int_(1441),
        tagline |-> Obj([text |-> Str("Everything")])]),
   Obj([localizedName |-> Str("Beta")]), EmptyDict, None,
   Obj([tagline |-> None])}

ProfileItems ==
  {Obj([firstName |-> Str("Ada"), lastName |-> Str("Lovelace"),
        headline |-> Str("Engineer"), locationName |-> Str("London")]),
   Obj([firstName |-> Str("Ada")]), EmptyDict, None}

DetailOutcomes(full, nested) ==
  ErrorOutcomes
  \cup {Ok(d) : d \in {None, List(<<>>), EmptyDict, Obj(full)}}
  \cup {Ok(Obj([full EXCEPT ![k] = None])) : k \in nested}
  \cup {Ok(Obj(Restrict(full, DOMAIN full \ {k}))) : k \in DOMAIN full}

JobListOutcomes == ListOutcomes(SearchJobLists)

AnalysisOutcomes == ListOutcomes(AnalysisJobLists)

CompanyListOutcomes == ListOutcomes(SeqsUpTo(CompanyItems, MaxItems))

ProfileListOutcomes == ListOutcomes(SeqsUpTo(ProfileItems, MaxItems))

JobDetailOutcomes ==
  DetailOutcomes(JobDetail, {"companyDetails", "description", "industries"})

CompanyDetailOutcomes ==
  DetailOutcomes(CompanyDetail, {"description", "industries", "foundedOn"})

\* the outcomes the fetch of `name` can have
Outcomes(name) ==
  CASE name = "search_jobs" -> JobListOutcomes
    [] name = "get_company_jobs" -> JobListOutcomes
    [] name = "analyze_job_market" -> AnalysisOutcomes
    [] name = "search_companies" -> CompanyListOutcomes
    [] name = "search_profiles" -> ProfileListOutcomes
    [] name = "get_job_details" -> JobDetailOutcomes
    [] name = "get_company_details" -> CompanyDetailOutcomes
    [] OTHER -> ErrorOutcomes \cup {Ok(EmptyDict)}

(***************************************************************************)
(* The server                                                              *)
(***************************************************************************)
NoRequest == [pending |-> FALSE, name |-> "", arguments |-> None]

NoFetch == [kind |-> "none"]

NoCall == [done |-> FALSE, name |-> "", arguments |-> None, outcome |-> NoFetch,
           returned |-> <<>>, propagated |-> NoExc, fetches |-> <<>>]

\* __init__: the token read from the environment (None when unset), and the
\* two handlers _setup_handlers registers
Init ==
  /\ access_token \in {Str("AQX-token"), None}
  /\ handlers = {"list_tools", "call_tool"}
  /\ request = NoRequest
  /\ last = NoCall
  /\ prev = NoCall

\* a tools/call request reaches the server
Arrive(name, arguments) ==
  /\ ~request.pending
  /\ ~last.done
  /\ "call_tool" \in handlers
  /\ request' = [pending |-> TRUE, name |-> name, arguments |-> arguments]
  /\ UNCHANGED <<access_token, handlers, last, prev>>

\* the record of a completed call
Completed(req, outcome, r) ==
  [done |-> TRUE, name |-> req.name, arguments |-> req.arguments,
   outcome |-> IF r.fetches = <<>> THEN NoFetch ELSE outcome,
   returned |-> r.returned, propagated |-> r.propagated, fetches |-> r.fetches]

\* the call with a handler that forgets the token when the API refuses it
CallToolDropsToken(outcome) ==
  /\ last' = Completed(request, outcome,
                       handle_call_tool(access_token, request.name,
                                        request.arguments, outcome))
  /\ request' = NoRequest
  /\ access_token' = IF last'.outcome.kind = "status" THEN None ELSE access_token
  /\ UNCHANGED <<handlers, prev>>

\* the call handle_call_tool completes, `outcome` being what its fetch meets
CallToolWith(outcome) ==
  /\ last' = Completed(request, outcome,
                       handle_call_tool(access_token, request.name,
                                        request.arguments, outcome))
  /\ request' = NoRequest
  /\ UNCHANGED <<access_token, handlers, prev>>

CallTool ==
  /\ request.pending
  /\ \E outcome \in Outcomes(request.name) : CallToolWith(outcome)

\* the returned list goes back to the client; nothing of the call is kept
Deliver ==
  /\ last.done
  /\ last' = NoCall
  /\ UNCHANGED <<access_token, handlers, request, prev>>

Next ==
  \/ \E name \in ToolNames : \E arguments \in ArgBags(name) : Arrive(name, arguments)
  \/ CallTool
  \/ Deliver

Spec == Init /\ [][Next]_vars

(***************************************************************************)
(* A second specification, which keeps the call before the last one: the   *)
(* calls of a run can then be compared with each other.                    *)
(***************************************************************************)
HistoryTools == {"search_jobs", "analyze_job_market", "delete_everything"}

HistoryBags(name) ==
  {None} \cup
  CASE name = "search_jobs" ->
         {Obj(("keywords" :> Str("AI Engineer")) @@ pwd) :
            pwd \in Opt("posted_within_days", {Str("past_week")})}
    [] name = "analyze_job_market" -> {Obj("role" :> Str("AI Engineer"))}
    [] OTHER -> {EmptyDict}

HistoryOutcomes ==
  {[kind |-> "status"], [kind |-> "timeout"], Ok(None), Ok(EmptyDict)}
  \cup {Ok(Obj([elements |-> List(l)])) : l \in SeqsUpTo({Obj(JobA), EmptyDict}, MaxItems)}

CallToolHistory ==
  /\ request.pending
  /\ \E outcome \in HistoryOutcomes : CallToolWith(outcome)

\* the returned list goes back to the client; the history keeps the call
DeliverHistory ==
  /\ last.done
  /\ prev' = last
  /\ last' = NoCall
  /\ UNCHANGED <<access_token, handlers, request>>

NextHistory ==
  \/ \E name \in HistoryTools : \E arguments \in HistoryBags(name) : Arrive(name, arguments)
  \/ CallToolHistory
  \/ DeliverHistory

SpecHistory == Init /\ [][NextHistory]_vars

(***************************************************************************)
(* Properties                                                              *)
(***************************************************************************)
\* the text of the response of the last call
LastText == last.returned[1].text

\* the argument `k` of the last call, `default` when the bag lacks it
LastArg(k, default) ==
  IF IsDict(last.arguments) THEN DictGet(last.arguments, k, default) ELSE default

HasArg(k) == IsDict(last.arguments) /\ k \in DOMAIN last.arguments.o

\* the last call fetched and got a JSON object
FetchedObject == last.outcome.kind = "ok" /\ IsDict(last.outcome.data)

\* the raw items of the "elements" list the last call received
FetchedItems ==
  IF FetchedObject /\ "elements" \in DOMAIN last.outcome.data.o
       /\ last.outcome.data.o.elements.t = "list"
    THEN last.outcome.data.o.elements.l
    ELSE <<>>

\* a job object whose present fields have the types of the API
WellFormedJob(job) ==
  /\ job.t = "obj"
  /\ "companyDetails" \in DOMAIN job.o => job.o.companyDetails.t = "obj"
  /\ "listedAt" \in DOMAIN job.o => job.o.listedAt.t = "int"

WellFormedItems == \A i \in 1..Len(FetchedItems) : WellFormedJob(FetchedItems[i])

\* the positions of the numbered entries of a text
Numbered(text) == {j \in 1..Len(text) : text[j].fmt = "{}. {}\n"}

IsErrorText(text) ==
  Len(text) = 1 /\ text[1].fmt \in {"Error: " \o m : m \in
    {"Unknown tool: {}", "'{}' object has no attribute 'get'",
     "unsupported type for timedelta days component: {}",
     "unsupported operand type(s) for /: '{}' and 'int'",
     "Client error '401 Unauthorized' for url '{}'",
     "All connection attempts failed", "The read operation timed out",
     "Expecting value: line 1 column 1 (char 0)", "can only join an iterable",
     "sequence item {}: expected str instance, {} found",
     "object is not subscriptable"}}

\* C1: every call, whatever its tool name, argument bag and fetch outcome,
\* returns exactly one text response and lets no exception through.
C1_OneTextResponse ==
  last.done =>
    /\ Len(last.returned) = 1
    /\ last.returned[1].type = "text"
    /\ last.propagated = NoExc

\* a call of a routed tool without argument bag has been answered with an error
C1_Witness ==
  /\ last.done
  /\ last.name = "get_company_jobs"
  /\ last.arguments = None
  /\ Len(last.returned) = 1
  /\ IsErrorText(LastText)

\* C2: an unknown tool name runs no operation, makes no fetch, and is answered
\* with one error text that holds the literal tool name.
C2_UnknownTool ==
  (last.done /\ last.name \notin RoutedTools) =>
    /\ last.fetches = <<>>
    /\ last.propagated = NoExc
    /\ Len(last.returned) = 1
    /\ LastText = << Piece("Error: Unknown tool: {}", <<last.name>>) >>

C2_Witness ==
  /\ last.done
  /\ last.name = "delete_everything"
  /\ last.arguments # None
  /\ Len(last.returned) = 1

\* C3, frame: no step changes the access token or the registered handlers.
C3_Frame == access_token' = access_token /\ handlers' = handlers

\* C3, isolation: two calls of a run with the same tool name, arguments and
\* fetch outcome have the same response.
C3_SameInputsSameResponse ==
  (prev.done /\ last.done /\ prev.name = last.name
     /\ prev.arguments = last.arguments /\ prev.outcome = last.outcome)
    => prev.returned = last.returned

\* C3, availability: with no call in progress the server accepts a call, and
\* an accepted call completes, whatever the call before did.
C3_Available ==
  /\ (~request.pending /\ ~last.done) =>
       ENABLED (\E name \in HistoryTools : \E arguments \in HistoryBags(name) :
                  Arrive(name, arguments))
  /\ request.pending => ENABLED CallToolHistory

C4_TitleOf(job) == IF "title" \in DOMAIN job.o THEN PyStr(job.o.title) ELSE "Unknown Title"

C4_CompanyOf(job) ==
  IF "companyDetails" \in DOMAIN job.o /\ "company" \in DOMAIN job.o.companyDetails.o
    THEN PyStr(job.o.companyDetails.o.company) ELSE "Unknown Company"

C4_LocationOf(job) ==
  IF "formattedLocation" \in DOMAIN job.o THEN PyStr(job.o.formattedLocation)
                                          ELSE "Location not specified"

C4_IdOf(job) == IF "jobPostingId" \in DOMAIN job.o THEN PyStr(job.o.jobPostingId) ELSE ""

C4_EntryIs(text, at, k, job) ==
  /\ text[at] = Piece("{}. {}\n", <<ToString(k), C4_TitleOf(job)>>)
  /\ text[at + 1] = Piece("   Company: {}\n", <<C4_CompanyOf(job)>>)
  /\ text[at + 2] = Piece("   Location: {}\n", <<C4_LocationOf(job)>>)
  /\ text[at + 3] = Piece("   Job ID: {}\n", <<C4_IdOf(job)>>)
  /\ text[at + 4].fmt = "   Posted: {}\n"
  /\ ("listedAt" \notin DOMAIN job.o => text[at + 4].a = <<"Unknown">>)
  /\ text[at + 5] = Piece("   URL: https://www.linkedin.com/jobs/view/{}\n\n",
                          <<C4_IdOf(job)>>)

C4_Rendered(text, items, h) ==
  /\ h >= 2
  /\ text[1].fmt = "Found {} jobs for '{}'"
  /\ text[1].a[1] = ToString(Len(items))
  /\ Numbered(text) = {h + 6 * (k - 1) + 1 : k \in 1..Len(items)}
  /\ \A k \in 1..Len(items) : C4_EntryIs(text, h + 6 * (k - 1) + 1, k, items[k])

\* C4: search_jobs renders one numbered entry per item of a non-empty list of
\* job objects, numbered 1..N in input order, with the default in the place
\* of every missing field, and N in the header.
C4_NoItemSkipped ==
  (last.done /\ last.name = "search_jobs" /\ FetchedItems # <<>> /\ WellFormedItems)
    => /\ Len(last.returned) = 1
       /\ C4_Rendered(LastText, FetchedItems, Len(LastText) - 6 * Len(FetchedItems))

\* a job without any field after a complete one, both rendered
C4_Witness ==
  /\ last.done
  /\ last.name = "search_jobs"
  /\ FetchedItems = <<Obj(JobB), EmptyDict>>
  /\ Cardinality(Numbered(LastText)) = 2

\* the last call is a job listing (search_jobs or get_company_jobs) that fetched
ListingFetched ==
  /\ last.done
  /\ last.name \in {"search_jobs", "get_company_jobs"}
  /\ Len(last.fetches) = 1

\* the limit the last call asked for
C5_Limit ==
  LastArg("limit", Int_(IF last.name = "search_jobs" THEN DefaultSearchLimit
                                                       ELSE DefaultCompanyLimit))

Section(text, from, to) ==
  LET a == CHOOSE j \in 1..Len(text) : text[j].fmt = from
      b == IF to = "" THEN Len(text) + 1
           ELSE CHOOSE j \in 1..Len(text) : text[j].fmt = to
  IN SubSeq(text, a + 1, b - 1)

\* the key of job `job` in each of the three mappings
LevelKey(job) ==
  IF "seniorityLevel" \in DOMAIN job.o THEN PyStr(job.o.seniorityLevel) ELSE "Unknown"

CompanyKey(job) ==
  IF "companyDetails" \in DOMAIN job.o /\ "company" \in DOMAIN job.o.companyDetails.o
    THEN PyStr(job.o.companyDetails.o.company) ELSE "Unknown"

LocationKey(job) ==
  IF "formattedLocation" \in DOMAIN job.o THEN PyStr(job.o.formattedLocation)
                                          ELSE "Unknown"

\* the number of jobs with key k, and the first job with key k
CountOf(keys, k) == Cardinality({i \in 1..Len(keys) : keys[i] = k})

FirstSeen(keys, k) == CHOOSE i \in 1..Len(keys) : keys[i] = k /\ \A j \in 1..(i - 1) : keys[j] # k

\* k1 ranks before k2: more jobs, or as many and met first
RanksBefore(keys, k1, k2) ==
  \/ CountOf(keys, k1) > CountOf(keys, k2)
  \/ CountOf(keys, k1) = CountOf(keys, k2) /\ FirstSeen(keys, k1) < FirstSeen(keys, k2)

\* the ranked list `lines` of the keys `keys`: each line has a key and its
\* count, a line stands before another only if its key ranks before, and a key
\* that ranks before a rendered key is rendered
Ranked(lines, keys) ==
  LET K == {keys[i] : i \in 1..Len(keys)}
      shown == {lines[p].a[1] : p \in 1..Len(lines)}
  IN /\ shown \subseteq K
     /\ \A p \in 1..Len(lines) : lines[p].a[2] = ToString(CountOf(keys, lines[p].a[1]))
     /\ \A p, q \in 1..Len(lines) :
          p < q => RanksBefore(keys, lines[p].a[1], lines[q].a[1])
     /\ \A k1 \in K : \A k2 \in shown : RanksBefore(keys, k1, k2) => k1 \in shown

\* the last call is a market analysis of a non-empty list of well-formed jobs
Analyzed ==
  /\ last.done
  /\ last.name = "analyze_job_market"
  /\ FetchedItems # <<>>
  /\ WellFormedItems

\* the keys of the fetched jobs, in the order of the response
LevelKeys == [i \in 1..Len(FetchedItems) |-> LevelKey(FetchedItems[i])]

CompanyKeys == [i \in 1..Len(FetchedItems) |-> CompanyKey(FetchedItems[i])]

LocationKeys == [i \in 1..Len(FetchedItems) |-> LocationKey(FetchedItems[i])]

\* C6: every ranked list of the analysis puts a key with more jobs before a
\* key with fewer, and keys with as many jobs in the order they were met.
C6_Ranking ==
  Analyzed =>
    /\ Len(last.returned) = 1
    /\ Ranked(Section(LastText, "Experience Level Distribution:\n",
                      "\nTop Hiring Companies:\n"), LevelKeys)
    /\ Ranked(Section(LastText, "\nTop Hiring Companies:\n", "\nTop Locations:\n"),
              CompanyKeys)
    /\ Ranked(Section(LastText, "\nTop Locations:\n", ""), LocationKeys)

\* an analysis of three jobs in which the company met second has more jobs
\* than the one met first
C6_Witness ==
  /\ Analyzed
  /\ Len(FetchedItems) = 3
  /\ CompanyKeys = <<"Beta", "Acme", "Acme">>
  /\ Len(Section(LastText, "\nTop Hiring Companies:\n", "\nTop Locations:\n")) = 2

RECURSIVE SumCounts(_, _)
\* the sum of the values of the first n entries of a mapping
SumCounts(d, n) == IF n = 0 THEN 0 ELSE SumCounts(d, n - 1) + d[n].n

SumsAre(c, n) ==
  /\ c.exc = NoExc
  /\ SumCounts(c.companies, Len(c.companies)) = n
  /\ SumCounts(c.locations, Len(c.locations)) = n
  /\ SumCounts(c.experience_levels, Len(c.experience_levels)) = n

\* C7: after the aggregation loop has processed n jobs, the values of each of
\* the three mappings sum to n; at the end, to the reported total.
C7_CountsSumToProcessed ==
  Analyzed =>
    /\ \A n \in 0..Len(FetchedItems) : SumsAre(AggregateLoop(FetchedItems, n), n)
    /\ Len(last.returned) = 1
    /\ \E j \in 1..Len(LastText) :
         LastText[j] = Piece("Total Job Postings: {}\n\n", <<ToString(Len(FetchedItems))>>)

\* an analysis of jobs of which one has no company
C7_Witness ==
  /\ Analyzed
  /\ Len(FetchedItems) >= 2
  /\ \E i \in 1..Len(FetchedItems) : "companyDetails" \notin DOMAIN FetchedItems[i].o
  /\ \E i \in 1..Len(FetchedItems) : "companyDetails" \in DOMAIN FetchedItems[i].o

\* the last call is a search_jobs with an argument bag
Searched == last.done /\ last.name = "search_jobs" /\ IsDict(last.arguments)

\* the token of the past month
PastMonthToken == "r2592000"

\* C8 as the spec states it: without a posted_within_days argument, or with one
\* that is no number of days, the query is built, with the past-month token.
C8_FallsBackToPastMonth ==
  (Searched /\ (~HasArg("posted_within_days")
                  \/ last.arguments.o.posted_within_days.t # "int"))
    => /\ Len(last.fetches) = 1
       /\ last.fetches[1].params.f_TPR = PastMonthToken

\* C8, amended: without the argument the token is the past-month token; an
\* integer N gives the token of N days, whatever N; any other value raises
\* before the query is built, and the call is answered with the error text.
C8_RecencyToken ==
  Searched =>
    IF ~HasArg("posted_within_days")
      THEN /\ Len(last.fetches) = 1
           /\ last.fetches[1].params.f_TPR = PastMonthToken
    ELSE IF last.arguments.o.posted_within_days.t = "int"
      THEN /\ Len(last.fetches) = 1
           /\ last.fetches[1].params.f_TPR =
                "r" \o ToString(last.arguments.o.posted_within_days.i * SecondsPerDay)
    ELSE /\ last.fetches = <<>>
         /\ Len(last.returned) = 1
         /\ LastText =
              << Piece("Error: unsupported type for timedelta days component: {}",
                       <<TypeName(last.arguments.o.posted_within_days)>>) >>

\* a search without posted_within_days has been sent
C8_Witness ==
  /\ Searched
  /\ ~HasArg("posted_within_days")
  /\ HasArg("keywords")
  /\ Len(last.fetches) = 1
  /\ last.fetches[1].params.f_TPR = PastMonthToken

\* C9: a level of the input schema maps to a code that is not empty, "entry"
\* to "1,2"; every other string, the empty one of an omitted argument too,
\* maps to the empty token; the call gets as far as its fetch.
C9_ExperienceMapping ==
  (Searched /\ LastArg("posted_within_days", Int_(DefaultPostedWithinDays)).t = "int"
     /\ LastArg("experience_level", Str("")).t = "str")
    => /\ Len(last.fetches) = 1
       /\ LET level == LastArg("experience_level", Str("")).s
              code == last.fetches[1].params.f_E
          IN /\ level \in ExperienceEnum => code # ""
             /\ level = "entry" => code = "1,2"
             /\ level \notin ExperienceEnum => code = ""

\* a search for the last level of the schema has been sent with its code
C9_Witness ==
  /\ Searched
  /\ HasArg("experience_level")
  /\ last.arguments.o.experience_level = Str("executive")
  /\ Len(last.fetches) = 1
  /\ last.fetches[1].params.f_E = "6"

\* the text holds the string s in one of its holes
Mentions(text, s) == \E j \in 1..Len(text) : \E i \in 1..Len(text[j].a) : text[j].a[i] = s

\* the last call is a search_jobs whose fetch returned an object without items
SearchedNothing ==
  /\ last.done
  /\ last.name = "search_jobs"
  /\ FetchedObject
  /\ Elements(last.outcome.data) = <<>>

\* C10 as the spec states it: no items is no error; the text says that no jobs
\* were found and holds the URL or the endpoint of the query.
C10_NoJobsWithQuery ==
  SearchedNothing =>
    /\ Len(last.returned) = 1
    /\ LastText[1].fmt = "No jobs found for '{}' in {}"
    /\ \/ Mentions(LastText, last.fetches[1].url)
       \/ Mentions(LastText, "/jobSearch")

\* C10, amended: no items is no error; the text is the one line saying that
\* no jobs were found for the keywords in the location ("any location" when
\* there is none); it holds neither the URL nor the endpoint of the query.
C10_NoJobsMessage ==
  SearchedNothing =>
    /\ Len(last.returned) = 1
    /\ last.propagated = NoExc
    /\ LastText =
         << Piece("No jobs found for '{}' in {}",
                  <<PyStr(LastArg("keywords", None)),
                    IF Truthy(LastArg("location", Str("")))
                      THEN PyStr(LastArg("location", Str(""))) ELSE "any location">>) >>
    /\ ~Mentions(LastText, last.fetches[1].url)
    /\ ~Mentions(LastText, "/jobSearch")

\* a search without location has received an empty list
C10_Witness ==
  /\ SearchedNothing
  /\ HasArg("keywords")
  /\ ~HasArg("location")
  /\ "elements" \in DOMAIN last.outcome.data.o
  /\ last.outcome.data.o.elements = List(<<>>)
  /\ LastText[1].a = <<"AI Engineer", "any location">>

(***************************************************************************)
(* C11: truncation of the ranked lists of analyze_job_market               *)
(***************************************************************************)
\* the three ranked sections of the report of the last call
LevelSection ==
  Section(LastText, "Experience Level Distribution:\n", "\nTop Hiring Companies:\n")

CompanySection == Section(LastText, "\nTop Hiring Companies:\n", "\nTop Locations:\n")

LocationSection == Section(LastText, "\nTop Locations:\n", "")

DistinctKeys(keys) == {keys[i] : i \in 1..Len(keys)}

\* `lines` are the n first entries of the keys `keys` sorted by count
\* descending: min(n, number of keys) lines, no key twice, in ranking order,
\* and no key left out that ranks before a rendered one
FirstOfRanking(lines, keys, n) ==
  /\ Len(lines) = IF Cardinality(DistinctKeys(keys)) < n
                    THEN Cardinality(DistinctKeys(keys)) ELSE n
  /\ \A p, q \in 1..Len(lines) : p # q => lines[p].a[1] # lines[q].a[1]
  /\ Ranked(lines, keys)

\* C11 as stated: each of the three ranked lists of the analysis (experience
\* level, company, location) has at most 10 entries, the 10 first of its
\* mapping sorted by count descending.
C11_TopTenEverywhere ==
  Analyzed =>
    /\ Len(LevelSection) <= TopN
    /\ Len(CompanySection) <= TopN
    /\ Len(LocationSection) <= TopN
    /\ FirstOfRanking(LevelSection, LevelKeys, TopN)
    /\ FirstOfRanking(CompanySection, CompanyKeys, TopN)
    /\ FirstOfRanking(LocationSection, LocationKeys, TopN)

\* C11 as amended: the company list and the location list have at most 10
\* entries, the 10 first of their mapping sorted by count descending; the
\* experience-level list is not cut and has one entry for every level met,
\* sorted by count descending.
C11_TopTenCompaniesAndLocations ==
  Analyzed =>
    /\ Len(CompanySection) <= TopN
    /\ Len(LocationSection) <= TopN
    /\ FirstOfRanking(CompanySection, CompanyKeys, TopN)
    /\ FirstOfRanking(LocationSection, LocationKeys, TopN)
    /\ Len(LevelSection) = Cardinality(DistinctKeys(LevelKeys))
    /\ FirstOfRanking(LevelSection, LevelKeys, Len(LevelKeys))

\* an analysis of jobs of more than 10 companies and more than 10 levels: the
\* company list is cut to 10 and the level list is not
C11_Witness ==
  /\ Analyzed
  /\ Cardinality(DistinctKeys(CompanyKeys)) > TopN
  /\ Cardinality(DistinctKeys(LevelKeys)) > TopN
  /\ Len(CompanySection) = TopN
  /\ Len(LevelSection) > TopN

====
